---- MODULE Spec2Model ----
(***************************************************************************)
(* Model of the hash_eq crate's hash-stream machinery (src/hash_cmp.rs):   *)
(* the HasherDatum event vocabulary, HasherDatum::hash_data, the           *)
(* DatumHasher adapter, and the two ConsumeHasherDatum sinks EqTestAcc and *)
(* EqTestCmp.                                                              *)
(*                                                                         *)
(* Two harnesses drive the stream state, a third the lookup adapter:       *)
(*   Spec      a value's Hash implementation drives a DatumHasher through  *)
(*             the std::hash::Hasher methods;                              *)
(*   SpecSink  a caller feeds HasherDatum values straight to               *)
(*             ConsumeHasherDatum::consume (hand-built streams).           *)
(*   SpecMap   a caller inserts into a HashMap and looks probes up with    *)
(*             the HashMapExt methods of src/ext.rs.                       *)
(***************************************************************************)
EXTENDS Integers, Sequences, FiniteSets, TLC

\* ------------------------------------------------------------------ bounds
\* longest byte slice passed to Hasher::write
MaxSlice == 2
\* Hasher calls issued over the recording and the comparing run together
MaxCalls == 3
\* HasherDatum values fed directly to consume, both runs together
MaxEvents == 5
\* distinct key values of the HashMap (and probe values looked up in it)
MaxKey == 2

\* sample byte values (u8) passed in slices
ByteVals == {1, 2}

\* ------------------------------------------------- the HasherDatum vocabulary
\* Variant names generated by define_hasher_datum!, one per integer type.
Widths ==
  {"Usize", "U8", "U16", "U32", "U64", "U128",
   "Isize", "I8", "I16", "I32", "I64", "I128"}

\* Mutant: two rows of the table with their variant names exchanged.
VariantOf_Swapped ==
  [write_usize |-> "Usize", write_u8 |-> "U8", write_u16 |-> "U16",
   write_u32 |-> "U32", write_u64 |-> "U64", write_u128 |-> "U128",
   write_isize |-> "Isize", write_i8 |-> "I16", write_i16 |-> "I8",
   write_i32 |-> "I32", write_i64 |-> "I64", write_i128 |-> "I128"]

\* The $method -> $var table of the define_hasher_datum! invocation.
VariantOf ==
  [write_usize |-> "Usize", write_u8 |-> "U8", write_u16 |-> "U16",
   write_u32 |-> "U32", write_u64 |-> "U64", write_u128 |-> "U128",
   write_isize |-> "Isize", write_i8 |-> "I8", write_i16 |-> "I16",
   write_i32 |-> "I32", write_i64 |-> "I64", write_i128 |-> "I128"]

Methods == DOMAIN VariantOf

\* Mutant: the pointer-sized variants are replayed with the 64-bit methods.
MethodOf_Fixed64(var) ==
  IF var = "Usize" THEN "write_u64"
  ELSE IF var = "Isize" THEN "write_i64"
  ELSE CHOOSE m \in Methods : VariantOf[m] = var

\* The Hasher method a variant is replayed with ($var(v) => state.$method(v)).
MethodOf(var) == CHOOSE m \in Methods : VariantOf[m] = var

\* enum HasherDatum: StartSlice carries no payload (v is 0 there).
StartSlice == [tag |-> "StartSlice", v |-> 0]
Byte(b) == [tag |-> "Byte", v |-> b]
Scalar(var, val) == [tag |-> var, v |-> val]

\* Mutant: equality that looks at the payload only.
DatumEq_TagBlind(a, b) == a.v = b.v

\* #[derive(PartialEq, Eq)] on HasherDatum: same variant and same payload.
DatumEq(a, b) == a.tag = b.tag /\ a.v = b.v

\* Option<T> as a sequence of at most one element.
None == <<>>
Some(x) == <<x>>

\* Option<HasherDatum> == Option<HasherDatum>
OptionEq(a, b) ==
  /\ Len(a) = Len(b)
  /\ (Len(a) = 1 => DatumEq(a[1], b[1]))

\* ------------------------------------------------------- the Hasher calls
\* A call of a std::hash::Hasher method: write(data) or write_<int>(v).
WriteCall(data) == [m |-> "write", data |-> data, v |-> 0]
IntCall(method, val) == [m |-> method, data |-> <<>>, v |-> val]

RECURSIVE SeqsUpTo(_, _)
SeqsUpTo(S, n) ==
  IF n = 0 THEN {<<>>}
  ELSE LET shorter == SeqsUpTo(S, n - 1)
       IN shorter \cup {Append(s, x) : s \in shorter, x \in S}

Slices == SeqsUpTo(ByteVals, MaxSlice)

\* Sample write_<int> calls: every method with the value 1 (it fits every
\* integer type), and write_u32 with a second value.
IntCalls ==
  {IntCall(m, 1) : m \in Methods} \cup {IntCall("write_u32", 12345)}

\* Sample HasherDatum values: what the sample calls can emit.
HasherDatum ==
  {StartSlice} \cup {Byte(b) : b \in ByteVals}
    \cup {Scalar(VariantOf[c.m], c.v) : c \in IntCalls}

\* The datums of hand-built streams: both markers of a slice and a sample of
\* the scalar variants (unsigned, signed, pointer-sized, a second value).
SinkDatums ==
  {StartSlice} \cup {Byte(b) : b \in ByteVals}
    \cup {Scalar("U8", 1), Scalar("I8", 1), Scalar("Usize", 1),
          Scalar("U32", 12345)}

\* A real hasher H, observed as the sequence of method calls it received.
H_write(st, data) == Append(st, WriteCall(data))
H_write_int(st, method, val) == Append(st, IntCall(method, val))

\* ------------------------------------------------------------ the sinks
\* The consumer field of DatumHasher<C>.  type says which sink C is:
\*   EqTestAcc { data }            data: Vec<HasherDatum>
\*   EqTestCmp { cmp, is_eq }      cmp: the unread rest of the IntoIter
\* seen is history: every datum handed to consume on this sink, in call order.
NewAcc ==
  [type |-> "EqTestAcc", data |-> <<>>, cmp |-> <<>>, is_eq |-> TRUE,
   seen |-> <<>>]

\* Mutant: peek instead of next (the iterator does not advance).
IterNext_Peek(it) ==
  IF it = <<>> THEN [item |-> None, rest |-> <<>>]
  ELSE [item |-> Some(Head(it)), rest |-> it]

\* Iterator::next on vec::IntoIter: the item and the iterator after the call.
IterNext(it) ==
  IF it = <<>> THEN [item |-> None, rest |-> <<>>]
  ELSE [item |-> Some(Head(it)), rest |-> Tail(it)]

\* Mutant: the datum is inserted at the front instead of pushed at the back.
EqTestAcc_consume_Front(c, datum) ==
  [c EXCEPT !.data = <<datum>> \o c.data]

\* Mutant: a validating push that drops a Byte arriving outside a slice.
EqTestAcc_consume_Validating(c, datum) ==
  IF /\ datum.tag = "Byte"
     /\ (c.data = <<>> \/ c.data[Len(c.data)].tag \notin {"StartSlice", "Byte"})
  THEN c
  ELSE [c EXCEPT !.data = Append(c.data, datum)]

\* impl ConsumeHasherDatum for EqTestAcc: self.data.push(datum)
EqTestAcc_consume(c, datum) ==
  [c EXCEPT !.data = Append(c.data, datum)]

\* Mutant: & instead of &&, so cmp.next() is called on every consume.
EqTestCmp_consume_Eager(c, datum) ==
  LET n == IterNext(c.cmp)
  IN [c EXCEPT !.cmp = n.rest,
               !.is_eq = c.is_eq /\ OptionEq(n.item, Some(datum))]

\* Mutant: the flag is overwritten by the last comparison alone.
EqTestCmp_consume_NotSticky(c, datum) ==
  LET n == IterNext(c.cmp)
  IN [c EXCEPT !.cmp = n.rest, !.is_eq = OptionEq(n.item, Some(datum))]

\* Mutant: an exhausted recorded stream is not counted as a mismatch.
EqTestCmp_consume_PastEnd(c, datum) ==
  IF c.is_eq
  THEN LET n == IterNext(c.cmp)
       IN [c EXCEPT !.cmp = n.rest,
                    !.is_eq = (n.item = None \/ OptionEq(n.item, Some(datum)))]
  ELSE c

\* impl ConsumeHasherDatum for EqTestCmp:
\*   self.is_eq = self.is_eq && self.cmp.next() == Some(datum)
\* && does not evaluate cmp.next() when is_eq is already false.
EqTestCmp_consume(c, datum) ==
  IF c.is_eq
  THEN LET n == IterNext(c.cmp)
       IN [c EXCEPT !.cmp = n.rest, !.is_eq = OptionEq(n.item, Some(datum))]
  ELSE c

\* consumer.consume(datum), dispatched on the sink type.
Consume(c, datum) ==
  LET d == IF c.type = "EqTestAcc" THEN EqTestAcc_consume(c, datum)
           ELSE EqTestCmp_consume(c, datum)
  IN [d EXCEPT !.seen = Append(c.seen, datum)]

\* Mutant: the recorded stream is iterated from its back.
EqTestCmp_from_Reversed(acc) ==
  [type |-> "EqTestCmp", data |-> <<>>,
   cmp |-> [i \in 1..Len(acc.data) |-> acc.data[Len(acc.data) + 1 - i]],
   is_eq |-> TRUE, seen |-> <<>>]

\* impl From<EqTestAcc> for EqTestCmp
EqTestCmp_from(acc) ==
  [type |-> "EqTestCmp", data |-> <<>>, cmp |-> acc.data, is_eq |-> TRUE,
   seen |-> <<>>]

\* Mutant: the flag alone, without looking at the rest of the iterator.
EqTestCmp_result_FlagOnly(c) == c.is_eq

\* EqTestCmp::result: self.is_eq && self.cmp.next().is_none()
EqTestCmp_result(c) ==
  c.is_eq /\ IterNext(c.cmp).item = None

\* Mutant: a finish that returns a dummy hash instead of panicking.
ConsumeHasherDatum_finish_Zero(c) == [panic |-> "", ret |-> Some(0)]

\* ConsumeHasherDatum::finish (default body): panics, returns no u64.
ConsumeHasherDatum_finish(c) ==
  [panic |-> "Cannot finish() a ConsumeHasherDatum", ret |-> None]

\* ----------------------------------------------------------- DatumHasher
\* DatumHasher::finish: self.consumer.finish()
DatumHasher_finish(c) == ConsumeHasherDatum_finish(c)

\* for &datum in data { self.consumer.consume(HasherDatum::Byte(datum)); }
RECURSIVE ForBytes(_, _)
ForBytes(c, data) ==
  IF data = <<>> THEN c
  ELSE ForBytes(Consume(c, Byte(Head(data))), Tail(data))

\* Mutant: an empty slice emits nothing.
DatumHasher_write_SkipEmpty(c, data) ==
  IF data = <<>> THEN c ELSE ForBytes(Consume(c, StartSlice), data)

\* DatumHasher::write
DatumHasher_write(c, data) == ForBytes(Consume(c, StartSlice), data)

\* DatumHasher::$method for each integer type
DatumHasher_write_int(c, method, val) ==
  Consume(c, Scalar(VariantOf[method], val))

\* One Hasher call on a DatumHasher.
DatumHasher_call(c, call) ==
  IF call.m = "write" THEN DatumHasher_write(c, call.data)
  ELSE DatumHasher_write_int(c, call.m, call.v)

\* ------------------------------------------------- HasherDatum::hash_data
\* Mutant: the buffer is not cleared between slices.
Clear_Keep(slice_data) == slice_data

\* slice_data.clear()
Clear(slice_data) == <<>>

\* while let Some(&Byte(v)) = iter.peek() { slice_data.push(v); iter.next(); }
\* Returns the filled slice_data and the iterator left behind.
RECURSIVE PeekBytes(_, _)
PeekBytes(it, slice_data) ==
  IF it # <<>> /\ Head(it).tag = "Byte"
  THEN PeekBytes(Tail(it), Append(slice_data, Head(it).v))
  ELSE [slice_data |-> slice_data, iter |-> it]

\* The while-let loop of hash_data over the iterator it, with the local
\* slice_data and the hasher st.  A panic stops the loop where it stands.
RECURSIVE hash_data_loop(_, _, _)

\* Mutant: a Byte outside of a slice is skipped instead of panicking.
hash_data_loop_SkipStray(it, slice_data, st) ==
  IF it = <<>> THEN [state |-> st, panic |-> ""]
  ELSE LET datum == Head(it)
           rest == Tail(it)
       IN CASE datum.tag = "StartSlice" ->
                 LET p == PeekBytes(rest, Clear(slice_data))
                 IN hash_data_loop(p.iter, p.slice_data, H_write(st, p.slice_data))
            [] datum.tag = "Byte" ->
                 hash_data_loop(rest, slice_data, st)
            [] OTHER ->
                 hash_data_loop(rest, slice_data,
                                H_write_int(st, MethodOf(datum.tag), datum.v))

hash_data_loop(it, slice_data, st) ==
  IF it = <<>> THEN [state |-> st, panic |-> ""]
  ELSE LET datum == Head(it)
           rest == Tail(it)
       IN CASE datum.tag = "StartSlice" ->
                 LET p == PeekBytes(rest, Clear(slice_data))
                 IN hash_data_loop(p.iter, p.slice_data, H_write(st, p.slice_data))
            [] datum.tag = "Byte" ->
                 [state |-> st, panic |-> "Byte outside of slice in hasher data"]
            [] OTHER ->
                 hash_data_loop(rest, slice_data,
                                H_write_int(st, MethodOf(datum.tag), datum.v))

\* HasherDatum::hash_data(data, state)
hash_data(data, st) == hash_data_loop(data, <<>>, st)

\* ---------------------------------------------- HashMapExt (src/ext.rs)
\* Values of the stored key type K and of the probe type Q.  A probe equals
\* the key of the same number (as a &str equals the String of the same text).
Keys == 1..MaxKey
Probes == 1..MaxKey

\* sample values of V
Vals == {10, 20}

\* Hash values, scaled down from 64 bits to 2 bits.
Hashes == 0..3

\* The tag of a hash kept in the table's control byte: its top bit here, as
\* std's table keeps the top 7 bits of the 64.
Tag(hash) == hash \div 2

\* impl PartialEq<K> for Q: key == k
ProbeEq(key, k) == key = k

\* let mut h = self.hasher().build_hasher(); key.hash(&mut h); h.finish()
\* hq is the hash each probe value gets under the map's hasher.
HashOf(hq, key) == hq[key]

\* Mutant: the table ignores the hash and tries the predicate on every entry.
from_hash_ScanAll(m, hk, hash, is_match) ==
  LET matches == {e \in m : is_match[e.k]}
  IN IF matches = {} THEN {None} ELSE {Some(e) : e \in matches}

\* raw_entry().from_hash(hash, is_match) of std's HashMap on a table of one
\* group: the predicate (a function of the key) is tried on the entries whose control byte carries
\* the tag of hash; the outcomes are the entries it accepts, None if none.
\* m is the set of entries, hk the hash each stored key was inserted with.
from_hash(m, hk, hash, is_match) ==
  LET candidates == {e \in m : Tag(hk[e.k]) = Tag(hash)}
      matches == {e \in candidates : is_match[e.k]}
  IN IF matches = {} THEN {None} ELSE {Some(e) : e \in matches}

\* Mutant: the predicate accepts every key.
get_key_value_hasheq_AnyKey(m, hk, hq, key) ==
  from_hash(m, hk, HashOf(hq, key), [k \in Keys |-> TRUE])

\* HashMapExt::get_key_value_hasheq: the outcomes, each an Option<(&K, &V)>
get_key_value_hasheq(m, hk, hq, key) ==
  from_hash(m, hk, HashOf(hq, key), [k \in Keys |-> ProbeEq(key, k)])

\* Mutant: key.hash(&mut h) is left out, the hasher finishes empty.
raw_entry_mut_hasheq_NoHash(m, hk, hq, key) ==
  from_hash(m, hk, 0, [k \in Keys |-> ProbeEq(key, k)])

\* HashMapExt::raw_entry_mut_hasheq: the outcomes, each a RawEntryMut
\* (Some(e) is Occupied on e, None is Vacant)
raw_entry_mut_hasheq(m, hk, hq, key) ==
  from_hash(m, hk, HashOf(hq, key), [k \in Keys |-> ProbeEq(key, k)])

\* The lookup result before any lookup.
NoLookup == [call |-> "none", q |-> 0, out |-> None]

\* ------------------------------------------------------------------ state
VARIABLES
  consumer,   \* DatumHasher.consumer: the sink being driven
  state,      \* the real hasher handed to hash_data: the calls it received
  pc,         \* "recording" | "comparing" | "replayed" | "done" | "aborted"
  recCalls,   \* history: Hasher calls issued during the recording run
  liveCalls,  \* history: Hasher calls issued during the comparing run
  recorded,   \* history: the stream the EqTestCmp was built from
  res,        \* Option<bool>: what EqTestCmp::result returned
  panic,      \* "" or the message of the panic that aborted the run
  ret,        \* Option<u64>: what finish returned
  op,         \* the operation performed last
  map,        \* HashMap<K, V, S>: its entries [k, v]
  hashK,      \* the hash of every K value under the map's hasher S
  hashQ,      \* the hash of every Q value under the map's hasher S
  found       \* the last lookup: its method, its probe and what it returned

streamVars ==
  <<consumer, state, pc, recCalls, liveCalls, recorded, res, panic, ret>>

mapVars == <<map, hashK, hashQ, found>>

vars == <<streamVars, op, mapVars>>

Init ==
  /\ consumer = NewAcc
  /\ state = <<>>
  /\ pc = "recording"
  /\ recCalls = <<>>
  /\ liveCalls = <<>>
  /\ recorded = <<>>
  /\ res = None
  /\ panic = ""
  /\ ret = None
  /\ op = "new"
  /\ map = {}
  /\ hashK = [k \in Keys |-> 0]
  /\ hashQ = [q \in Probes |-> 0]
  /\ found = NoLookup

Running == pc \in {"recording", "comparing"}

\* History of the Hasher call just issued, by run.
Issue(call) ==
  IF pc = "recording"
  THEN recCalls' = Append(recCalls, call) /\ UNCHANGED liveCalls
  ELSE liveCalls' = Append(liveCalls, call) /\ UNCHANGED recCalls

\* Hasher::write(data) on the DatumHasher
Write(data) ==
  /\ Running
  /\ Len(recCalls) + Len(liveCalls) < MaxCalls
  /\ consumer' = DatumHasher_write(consumer, data)
  /\ Issue(WriteCall(data))
  /\ op' = "write"
  /\ UNCHANGED <<state, pc, recorded, res, panic, ret>>
  /\ UNCHANGED mapVars

\* Hasher::write_<int>(val) on the DatumHasher
WriteInt(method, val) ==
  /\ Running
  /\ Len(recCalls) + Len(liveCalls) < MaxCalls
  /\ consumer' = DatumHasher_write_int(consumer, method, val)
  /\ Issue(IntCall(method, val))
  /\ op' = "write_int"
  /\ UNCHANGED <<state, pc, recorded, res, panic, ret>>
  /\ UNCHANGED mapVars

\* ConsumeHasherDatum::consume(datum) called on the sink itself
ConsumeDatum(datum) ==
  /\ Running
  /\ Len(recorded) + Len(consumer.seen) < MaxEvents
  /\ consumer' = Consume(consumer, datum)
  /\ op' = "consume"
  /\ UNCHANGED <<state, pc, recCalls, liveCalls, recorded, res, panic, ret>>
  /\ UNCHANGED mapVars

\* EqTestCmp::from(hasher.into_inner()), wrapped in a new DatumHasher
From ==
  /\ pc = "recording"
  /\ consumer' = EqTestCmp_from(consumer)
  /\ recorded' = consumer.data
  /\ pc' = "comparing"
  /\ op' = "from"
  /\ UNCHANGED <<state, recCalls, liveCalls, res, panic, ret>>
  /\ UNCHANGED mapVars

\* hasher.into_inner().result()
Result ==
  /\ pc = "comparing"
  /\ res' = Some(EqTestCmp_result(consumer))
  /\ pc' = "done"
  /\ op' = "result"
  /\ UNCHANGED <<consumer, state, recCalls, liveCalls, recorded, panic, ret>>
  /\ UNCHANGED mapVars

\* HasherDatum::hash_data(acc.data, &mut state) with a fresh real hasher
HashData ==
  /\ pc = "recording"
  /\ LET r == hash_data(consumer.data, state)
     IN /\ state' = r.state
        /\ panic' = r.panic
        /\ pc' = IF r.panic = "" THEN "replayed" ELSE "aborted"
  /\ op' = "hash_data"
  /\ UNCHANGED <<consumer, recCalls, liveCalls, recorded, res, ret>>
  /\ UNCHANGED mapVars

\* Hasher::finish on the DatumHasher
Finish ==
  /\ Running
  /\ LET r == DatumHasher_finish(consumer)
     IN /\ panic' = r.panic
        /\ ret' = r.ret
        /\ pc' = IF r.panic = "" THEN pc ELSE "aborted"
  /\ op' = "finish"
  /\ UNCHANGED <<consumer, state, recCalls, liveCalls, recorded, res>>
  /\ UNCHANGED mapVars

Next ==
  \/ \E data \in Slices : Write(data)
  \/ \E c \in IntCalls : WriteInt(c.m, c.v)
  \/ From
  \/ Result
  \/ HashData
  \/ Finish

Spec == Init /\ [][Next]_vars

NextSink ==
  \/ \E d \in SinkDatums : ConsumeDatum(d)
  \/ From
  \/ Result
  \/ HashData
  \/ Finish

SpecSink == Init /\ [][NextSink]_vars

\* ------------------------------------------------- the lookup harness
\* An empty map; the Hash implementations of K and Q and the map's hasher
\* are the caller's, so any hash assignment is possible.
InitMap ==
  /\ consumer = NewAcc
  /\ state = <<>>
  /\ pc = "recording"
  /\ recCalls = <<>>
  /\ liveCalls = <<>>
  /\ recorded = <<>>
  /\ res = None
  /\ panic = ""
  /\ ret = None
  /\ op = "new"
  /\ map = {}
  /\ hashK \in [Keys -> Hashes]
  /\ hashQ \in [Probes -> Hashes]
  /\ found = NoLookup

\* HashMap::insert(k, v): the value of an equal key is replaced.
Insert(k, v) ==
  /\ map' = {e \in map : e.k # k} \cup {[k |-> k, v |-> v]}
  /\ op' = "insert"
  /\ UNCHANGED <<streamVars, hashK, hashQ, found>>

\* map.get_key_value_hasheq(&key)
GetKeyValue(key) ==
  /\ \E out \in get_key_value_hasheq(map, hashK, hashQ, key) :
        found' = [call |-> "get_key_value_hasheq", q |-> key, out |-> out]
  /\ op' = "lookup"
  /\ UNCHANGED <<streamVars, map, hashK, hashQ>>

\* map.raw_entry_mut_hasheq(&key)
RawEntryMut(key) ==
  /\ \E out \in raw_entry_mut_hasheq(map, hashK, hashQ, key) :
        found' = [call |-> "raw_entry_mut_hasheq", q |-> key, out |-> out]
  /\ op' = "lookup"
  /\ UNCHANGED <<streamVars, map, hashK, hashQ>>

NextMap ==
  \/ \E k \in Keys, v \in Vals : Insert(k, v)
  \/ \E q \in Probes : GetKeyValue(q)
  \/ \E q \in Probes : RawEntryMut(q)

SpecMap == InitMap /\ [][NextMap]_vars

\* ------------------------------------------------- definitions for claims
Last(s) == s[Len(s)]

IsPrefix(a, b) == Len(a) <= Len(b) /\ SubSeq(b, 1, Len(a)) = a

IsStrictPrefix(a, b) == Len(a) < Len(b) /\ SubSeq(b, 1, Len(a)) = a

\* The Hasher call issued last in the current run.
LastCall == IF pc = "recording" THEN Last(recCalls) ELSE Last(liveCalls)

\* The datums a write(data) is expected to hand to the sink.
Framed(data) == <<StartSlice>> \o [i \in 1..Len(data) |-> Byte(data[i])]

\* The expected variant of every write_<int> method.
WidthTable ==
  {<<"write_usize", "Usize">>, <<"write_u8", "U8">>, <<"write_u16", "U16">>,
   <<"write_u32", "U32">>, <<"write_u64", "U64">>, <<"write_u128", "U128">>,
   <<"write_isize", "Isize">>, <<"write_i8", "I8">>, <<"write_i16", "I16">>,
   <<"write_i32", "I32">>, <<"write_i64", "I64">>, <<"write_i128", "I128">>}

\* Driving a real hasher directly with a sequence of Hasher calls.
RECURSIVE Direct(_, _)
Direct(st, calls) ==
  IF calls = <<>> THEN st
  ELSE LET c == Head(calls)
       IN Direct(IF c.m = "write" THEN H_write(st, c.data)
                 ELSE H_write_int(st, c.m, c.v),
                 Tail(calls))

\* The stream a fresh DatumHasher<EqTestAcc> records from a sequence of calls.
RECURSIVE Drive(_, _)
Drive(c, calls) ==
  IF calls = <<>> THEN c
  ELSE Drive(DatumHasher_call(c, Head(calls)), Tail(calls))

Record(calls) == Drive(NewAcc, calls).data

\* The Byte at position i of stream s lies inside an open slice: it directly
\* follows a StartSlice, or a Byte that itself lies inside the slice.
RECURSIVE InSlice(_, _)
InSlice(s, i) ==
  /\ i > 1
  /\ s[i].tag = "Byte"
  /\ (s[i - 1].tag = "StartSlice" \/ InSlice(s, i - 1))

\* Positions of the Bytes of s that lie outside of every slice.
Stray(s) == {i \in 1..Len(s) : s[i].tag = "Byte" /\ ~InSlice(s, i)}

FirstStray(s) == CHOOSE i \in Stray(s) : \A j \in Stray(s) : i <= j

\* ------------------------------------------------------------------ claims

\* C1: result() returns true exactly when the still-equal flag is true and
\* the recorded stream has no unread event left; with the flag true and
\* events unread it returns false.  (SpecSink)
ResultIsFlagAndExhausted ==
  pc = "done" =>
    /\ res = Some(consumer.is_eq /\ consumer.cmp = <<>>)
    /\ (consumer.is_eq /\ consumer.cmp # <<>> => res = Some(FALSE))

ResultWithUnreadEvents ==
  /\ pc = "done"
  /\ consumer.is_eq
  /\ consumer.seen # <<>>
  /\ consumer.cmp # <<>>
  /\ res = Some(FALSE)

\* C2: replaying the stream recorded from a sequence of Hasher calls with
\* hash_data issues to the hasher exactly the calls of the sequence, as
\* driving the hasher directly does, and does not panic.  (Spec)
ReplayRoundTrip ==
  op = "hash_data" =>
    /\ panic = ""
    /\ state = Direct(<<>>, recCalls)

ReplayedAdjacentWrites ==
  /\ op = "hash_data"
  /\ pc = "replayed"
  /\ recCalls = <<WriteCall(<<>>), WriteCall(<<1, 2>>), WriteCall(<<1>>)>>
  /\ state = recCalls

\* C3: comparing a sequence of Hasher calls against the recording of the
\* same sequence makes result() return true.  (Spec)
ComparatorReflexive ==
  pc = "done" /\ liveCalls = recCalls => res = Some(TRUE)

ComparedAgainstItself ==
  /\ pc = "done"
  /\ recCalls = <<WriteCall(<<1, 2>>)>>
  /\ liveCalls = recCalls
  /\ res = Some(TRUE)

\* C4: when the live events are a strict prefix of the recorded stream, or
\* the recorded stream a strict prefix of the live events, result() returns
\* false.  (SpecSink)
PrefixMismatch ==
  pc = "done"
    /\ (\/ IsStrictPrefix(consumer.seen, recorded)
        \/ IsStrictPrefix(recorded, consumer.seen))
    => res = Some(FALSE)

LiveStoppedEarly ==
  /\ pc = "done"
  /\ consumer.seen # <<>>
  /\ IsStrictPrefix(consumer.seen, recorded)
  /\ res = Some(FALSE)

\* C5: when the compared sequence of Hasher calls differs from the recorded
\* one (by method, value or slice boundary), result() returns false.  (Spec)
ComparatorSensitive ==
  pc = "done" /\ liveCalls # recCalls => res = Some(FALSE)

SameBytesOtherBoundaries ==
  /\ pc = "done"
  /\ recCalls = <<WriteCall(<<1, 2>>)>>
  /\ liveCalls = <<WriteCall(<<1>>), WriteCall(<<2>>)>>
  /\ res = Some(FALSE)

\* C6: write(slice) on a slice of n bytes makes exactly n+1 consume calls:
\* StartSlice, then one Byte per byte of the slice, in slice order.  (Spec)
SliceFraming ==
  [][op' = "write" =>
       /\ LastCall'.m = "write"
       /\ consumer'.seen = consumer.seen \o Framed(LastCall'.data)]_vars

FramedTwoBytes ==
  /\ op = "write"
  /\ pc = "recording"
  /\ recCalls = <<IntCall("write_u8", 1), WriteCall(<<1, 2>>)>>
  /\ consumer.seen = <<Scalar("U8", 1), StartSlice, Byte(1), Byte(2)>>
  /\ consumer.data = consumer.seen

\* C7: every write_<int>(v) makes exactly one consume call, carrying the
\* variant of that integer type with the value v, never StartSlice or Byte;
\* that datum is unequal to every datum of another variant.  (Spec)
ScalarEvents ==
  [][op' = "write_int" =>
       \E p \in WidthTable :
         LET datum == [tag |-> p[2], v |-> LastCall'.v]
         IN /\ p[1] = LastCall'.m
            /\ consumer'.seen = Append(consumer.seen, datum)
            /\ \A d \in HasherDatum : d.tag # datum.tag => ~DatumEq(d, datum)]_vars

RecordedU32 ==
  /\ op = "write_int"
  /\ pc = "recording"
  /\ recCalls = <<IntCall("write_u32", 12345)>>
  /\ consumer.data = <<Scalar("U32", 12345)>>

\* C8: hash_data panics exactly when the stream holds a Byte outside of an
\* open slice, and then the hasher has received the events before the first
\* such Byte and nothing after it.  (SpecSink)
HashDataPanicsOnStrayByte ==
  op = "hash_data" =>
    LET s == consumer.data
    IN /\ (panic # "" <=> Stray(s) # {})
       /\ (panic # "" <=> pc = "aborted")
       /\ (Stray(s) # {} => Record(state) = SubSeq(s, 1, FirstStray(s) - 1))

StrayByteAfterScalar ==
  /\ op = "hash_data"
  /\ pc = "aborted"
  /\ consumer.data = <<StartSlice, Scalar("U8", 1), Byte(1), StartSlice>>
  /\ state = <<WriteCall(<<>>), IntCall("write_u8", 1)>>

\* C9 as claimed: feeding a Byte to a recording sink while no slice is open
\* aborts the operation.  (SpecSink)
StrayByteAbortsSink ==
  /\ op = "consume"
  /\ Last(consumer.seen).tag = "Byte"
  /\ ~InSlice(consumer.seen, Len(consumer.seen))
  => pc = "aborted" /\ panic # ""

\* C9 amended: feeding a Byte to a recording sink while no slice is open
\* does not abort; EqTestAcc appends it like any datum and EqTestCmp
\* compares it with the next recorded datum like any datum.  (SpecSink)
StrayByteAcceptedBySink ==
  /\ op = "consume"
  /\ Last(consumer.seen).tag = "Byte"
  /\ ~InSlice(consumer.seen, Len(consumer.seen))
  => /\ panic = ""
     /\ Running
     /\ (consumer.type = "EqTestAcc" => consumer.data = consumer.seen)
     /\ (consumer.type = "EqTestCmp" =>
           (consumer.is_eq <=> IsPrefix(consumer.seen, recorded)))

StrayByteRecorded ==
  /\ op = "consume"
  /\ consumer.type = "EqTestAcc"
  /\ consumer.seen = <<Scalar("U8", 1), Byte(2)>>
  /\ consumer.data = consumer.seen
  /\ panic = ""

\* C10: finish() on a DatumHasher wrapping EqTestAcc or EqTestCmp panics at
\* any point of the stream and returns no u64.  (Spec)
FinishPanics ==
  op = "finish" =>
    /\ panic = "Cannot finish() a ConsumeHasherDatum"
    /\ pc = "aborted"
    /\ ret = None

FinishedBetweenEvents ==
  /\ op = "finish"
  /\ pc = "aborted"
  /\ consumer.type = "EqTestCmp"
  /\ recorded # <<>>
  /\ consumer.seen # <<>>
  /\ ret = None

\* C11: the stream stored by EqTestAcc is exactly the sequence of consumed
\* datums, in call order, and no consume call fails.  (SpecSink)
AccumulatorFidelity ==
  /\ consumer.type = "EqTestAcc" => consumer.data = consumer.seen
  /\ op = "consume" => panic = "" /\ Running

AccumulatedUnvalidated ==
  /\ op = "consume"
  /\ consumer.type = "EqTestAcc"
  /\ consumer.data = <<Byte(2), Scalar("I8", 1), StartSlice, Byte(1)>>

\* C14 is not stated: see RESULTS.json.

\* The number of recorded datums already popped from the comparator.
Popped == Len(recorded) - Len(consumer.cmp)

Min(a, b) == IF a <= b THEN a ELSE b

\* Length of the longest common prefix of two streams.
RECURSIVE CommonPrefixLen(_, _)
CommonPrefixLen(a, b) ==
  IF a = <<>> \/ b = <<>> \/ Head(a) # Head(b) THEN 0
  ELSE 1 + CommonPrefixLen(Tail(a), Tail(b))

\* C15 as claimed: every consume call pops the next recorded datum, also
\* after the flag became false: after n calls the cursor has advanced by
\* min(n, length of the recorded stream).  (SpecSink)
CursorAlwaysAdvances ==
  consumer.type = "EqTestCmp" =>
    Popped = Min(Len(consumer.seen), Len(recorded))

\* C15 amended: a consume call pops the next recorded datum only while the
\* flag is still true; the call that clears the flag is the last one to pop.
\* After n calls the cursor has advanced by n when the flag is true, and by
\* min(j, length of the recorded stream) otherwise, j being the call that
\* cleared the flag.  (SpecSink)
CursorStopsAfterMismatch ==
  consumer.type = "EqTestCmp" =>
    LET j == CommonPrefixLen(consumer.seen, recorded) + 1
    IN /\ consumer.cmp = SubSeq(recorded, Popped + 1, Len(recorded))
       /\ (consumer.is_eq => Popped = Len(consumer.seen))
       /\ (~consumer.is_eq => Popped = Min(j, Len(recorded)))

CursorStopped ==
  /\ op = "consume"
  /\ consumer.type = "EqTestCmp"
  /\ ~consumer.is_eq
  /\ Len(recorded) = 2
  /\ Len(consumer.seen) = 2
  /\ Len(consumer.cmp) = 1

\* C16: the still-equal flag starts true, a consume call never sets it back
\* to true once it is false, and result() is then false.  (SpecSink)
FlagSticky ==
  [][/\ (op' = "from" => consumer'.is_eq)
     /\ (consumer.type = "EqTestCmp" /\ ~consumer.is_eq => ~consumer'.is_eq)
     /\ (op' = "result" /\ ~consumer.is_eq => res' = Some(FALSE))]_vars

FlagStaysFalse ==
  /\ op = "consume"
  /\ consumer.type = "EqTestCmp"
  /\ recorded = <<StartSlice, Byte(1)>>
  /\ consumer.seen = <<Byte(2), Byte(1)>>
  /\ ~consumer.is_eq

\* C17: after n consume calls with live datums L against the recorded stream
\* R, the flag is true iff n <= |R| and L equals R[1..n]; while it is true
\* exactly n datums were popped; result() is true iff L = R.  (SpecSink)
CursorInvariant ==
  /\ consumer.type = "EqTestCmp" =>
       /\ (consumer.is_eq <=> IsPrefix(consumer.seen, recorded))
       /\ (consumer.is_eq => Popped = Len(consumer.seen))
  /\ pc = "done" => res = Some(consumer.seen = recorded)

WholeStreamMatched ==
  /\ pc = "done"
  /\ Len(recorded) = 2
  /\ consumer.seen = recorded
  /\ res = Some(TRUE)

\* C19: replaying a well-formed stream (no Byte outside of a slice) with
\* hash_data into a DatumHasher<EqTestAcc> records the same stream.
\* (SpecSink)
RecordAfterReplay ==
  op = "hash_data" /\ Stray(consumer.data) = {} =>
    /\ panic = ""
    /\ Record(state) = consumer.data

ReplayedWellFormed ==
  /\ op = "hash_data"
  /\ pc = "replayed"
  /\ consumer.data = <<StartSlice, StartSlice, Byte(1), Scalar("Usize", 1)>>
  /\ state = <<WriteCall(<<>>), WriteCall(<<1>>), IntCall("write_usize", 1)>>

\* The contract of HashEq: a probe and a key that are equal hash alike under
\* the map's hasher.
Compatible ==
  \A q \in Probes, k \in Keys : ProbeEq(q, k) => hashQ[q] = hashK[k]

\* The stored entries whose key equals the probe of the last lookup.
Equal == {e \in map : ProbeEq(found.q, e.k)}

\* C12: under the hash-compatibility precondition a lookup returns the stored
\* pair (an occupied entry) whose key equals the probe when there is one, and
\* None (a vacant entry) when there is none.  (SpecMap)
LookupCorrect ==
  op = "lookup" /\ Compatible =>
    /\ (Equal # {} => found.out \in {Some(e) : e \in Equal})
    /\ (Equal = {} => found.out = None)

FoundAmongColliding ==
  /\ op = "lookup"
  /\ Compatible
  /\ found.call = "raw_entry_mut_hasheq"
  /\ hashK[1] = hashK[2]
  /\ map = {[k |-> 1, v |-> 10], [k |-> 2, v |-> 20]}
  /\ found.out = Some([k |-> 2, v |-> 20])

\* The last lookup probed for a stored key that hashes unlike the probe.
Violated ==
  /\ op = "lookup"
  /\ \E e \in Equal : hashQ[found.q] # hashK[e.k]

\* C13 as claimed: when a stored key equals the probe but hashes unlike it,
\* the lookup completes and reports not-found.  (SpecMap)
ViolationAlwaysMisses ==
  Violated => panic = "" /\ found.out = None

\* C13 amended: when a stored key equals the probe but hashes unlike it, the
\* lookup completes without a panic; it reports not-found, unless the tag of
\* the two hashes is the same, and then it returns the entry of that key.
\* (SpecMap)
ViolationMissesUnlessTagCollides ==
  Violated =>
    /\ panic = ""
    /\ \A e \in Equal :
         /\ (found.out = None <=> Tag(hashQ[found.q]) # Tag(hashK[e.k]))
         /\ (found.out # None => found.out = Some(e))

SilentMiss ==
  /\ Violated
  /\ found.call = "get_key_value_hasheq"
  /\ found.q = 1
  /\ [k |-> 1, v |-> 10] \in map
  /\ found.out = None

\* C18: whatever the hashes are, a lookup that returns a pair or an occupied
\* entry returns a stored entry whose key equals the probe.  (SpecMap)
LookupSound ==
  op = "lookup" /\ found.out # None =>
    /\ found.out[1] \in map
    /\ ProbeEq(found.q, found.out[1].k)

HitDespiteCollision ==
  /\ op = "lookup"
  /\ found.call = "get_key_value_hasheq"
  /\ ~Compatible
  /\ hashK[1] = hashK[2]
  /\ Cardinality(map) = 2
  /\ found.out # None
  /\ found.out[1].k = 2

====
